---- MODULE Spec2Model ----
(***************************************************************************)
(* Model of app.py, the Streamlit workout progress tracker.                *)
(*                                                                         *)
(* The script is re-executed from top to bottom on every user interaction. *)
(* Its state is st.session_state: the entry table `data` and the           *)
(* accumulator `session_total`.  One action models one execution of the    *)
(* script for one kind of interaction (first run, plain rerun, the         *)
(* "Add to Total" button, the "Add Workout" button).                       *)
(*                                                                         *)
(* Value representations                                                   *)
(*   float      [nan, v]            v an integer, nan = TRUE for NaN       *)
(*   timestamp  [nat, y, m, d, hh, mm, ss]   nat = TRUE for NaT            *)
(*   CSV cell   [na, s]             na = TRUE for an empty cell            *)
(*   a numeric cell's text is a sequence of one-character strings, a date  *)
(*   cell's text is the record of the tokens of the string                 *)
(***************************************************************************)
EXTENDS Integers, Sequences, FiniteSets, TLC

\* ------------------------------------------------------------- constants
WORKOUT_AREAS == <<"Shoulder", "Bicep", "Chest", "Tricep", "Upper leg", "Calf", "Back">>

GOAL_WEIGHT == 500000

\* ---------------------------------------------------------------- bounds
\* rows of an input file
MaxRows == 2

\* entries of the session table
MaxEntries == 3

\* cap of the accumulator
MaxTotal == 40

Range(s) == {s[i] : i \in DOMAIN s}

AreaSet == Range(WORKOUT_AREAS)

\* ----------------------------------------------------------------- floats
NaN == [nan |-> TRUE, v |-> 0]

Num(n) == [nan |-> FALSE, v |-> n]

\* float(x) - y, NaN-propagating
FSub(a, b) == IF a.nan \/ b.nan THEN NaN ELSE Num(a.v - b.v)

\* ------------------------------------------------------------ timestamps
NaT == [nat |-> TRUE, y |-> 0, m |-> 0, d |-> 0, hh |-> 0, mm |-> 0, ss |-> 0]

Stamp(y, m, d, hh, mm, ss) ==
  [nat |-> FALSE, y |-> y, m |-> m, d |-> d, hh |-> hh, mm |-> mm, ss |-> ss]

MonthNames == <<"January", "February", "March", "April", "May", "June", "July",
                "August", "September", "October", "November", "December">>

IsLeap(y) == (y % 4 = 0) /\ ((y % 100 # 0) \/ (y % 400 = 0))

DaysInMonth(y, m) ==
  IF m = 2 THEN (IF IsLeap(y) THEN 29 ELSE 28)
  ELSE IF m \in {4, 6, 9, 11} THEN 30 ELSE 31

\* pd.to_datetime(cell, format='%B %d, %Y at %I:%M:%S %p') of one cell:
\* [ok, ts]; ok = FALSE when the string does not match (ValueError).
ParseDate(cell) ==
  IF cell.na THEN [ok |-> TRUE, ts |-> NaT]
  ELSE LET s == cell.s
           good == /\ s.month \in Range(MonthNames)
                   /\ s.year \in 1..9999
                   /\ s.at = "at"
                   /\ s.hour \in 1..12
                   /\ s.minute \in 0..59
                   /\ s.second \in 0..61
                   /\ s.ampm \in {"AM", "PM"}
       IN IF ~good THEN [ok |-> FALSE, ts |-> NaT]
          ELSE LET m == CHOOSE i \in 1..12 : MonthNames[i] = s.month
               IN IF s.day \notin 1..DaysInMonth(s.year, m)
                  THEN [ok |-> FALSE, ts |-> NaT]
                  ELSE [ok |-> TRUE,
                        ts |-> Stamp(s.year, m, s.day,
                                     (s.hour % 12) + (IF s.ampm = "PM" THEN 12 ELSE 0),
                                     s.minute, s.second)]

\* datetime.combine(date, time)
Combine(date, time) == Stamp(date.y, date.m, date.d, time.hh, time.mm, time.ss)

\* date.toordinal(): days since 0001-01-01, which is day 1, a Monday
RECURSIVE DaysBeforeMonth(_, _)
DaysBeforeMonth(y, m) ==
  IF m = 1 THEN 0 ELSE DaysBeforeMonth(y, m - 1) + DaysInMonth(y, m - 1)

Ordinal(y, m, d) ==
  (y - 1) * 365 + ((y - 1) \div 4) - ((y - 1) \div 100) + ((y - 1) \div 400)
  + DaysBeforeMonth(y, m) + d

SecondOfDay(ts) == (ts.hh * 60 + ts.mm) * 60 + ts.ss

\* a <= b for two timestamps that are not NaT
TsLe(a, b) ==
  LET oa == Ordinal(a.y, a.m, a.d)
      ob == Ordinal(b.y, b.m, b.d)
  IN oa < ob \/ (oa = ob /\ SecondOfDay(a) <= SecondOfDay(b))

\* the ordinal of the Monday that starts ISO week 1 of year y
IsoWeek1Monday(y) ==
  LET firstday == Ordinal(y, 1, 1)
      firstweekday == (firstday + 6) % 7
      week1monday == firstday - firstweekday
  IN IF firstweekday > 3 THEN week1monday + 7 ELSE week1monday

\* .dt.isocalendar().week of a timestamp that is not NaT
IsoWeek(ts) ==
  LET today == Ordinal(ts.y, ts.m, ts.d)
      week == (today - IsoWeek1Monday(ts.y)) \div 7
  IN IF today < IsoWeek1Monday(ts.y)
     THEN ((today - IsoWeek1Monday(ts.y - 1)) \div 7) + 1
     ELSE IF week >= 52 /\ today >= IsoWeek1Monday(ts.y + 1) THEN 1
     ELSE week + 1

\* --------------------------------------------------------- numeric cells
Digits == <<"0", "1", "2", "3", "4", "5", "6", "7", "8", "9">>

DigitVal(c) == (CHOOSE i \in 1..10 : Digits[i] = c) - 1

\* .str.replace(',', '')
RECURSIVE RemoveCommas(_)
RemoveCommas(s) ==
  IF s = <<>> THEN <<>>
  ELSE IF Head(s) = "," THEN RemoveCommas(Tail(s))
  ELSE <<Head(s)>> \o RemoveCommas(Tail(s))

RECURSIVE DigitsValue(_)
DigitsValue(s) ==
  IF s = <<>> THEN 0 ELSE DigitsValue(SubSeq(s, 1, Len(s) - 1)) * 10 + DigitVal(s[Len(s)])

\* pd.to_numeric(cell.astype(str).str.replace(',', ''), errors='coerce') of one
\* cell; an empty cell is the string "nan", which is NaN.  Integer notation
\* with an optional sign; any other text is coerced to NaN.
ToNumeric(cell) ==
  IF cell.na THEN NaN
  ELSE LET t == RemoveCommas(cell.s)
           neg == t # <<>> /\ Head(t) = "-"
           body == IF neg THEN Tail(t) ELSE t
       IN IF body # <<>> /\ \A i \in DOMAIN body : body[i] \in Range(Digits)
          THEN Num(IF neg THEN 0 - DigitsValue(body) ELSE DigitsValue(body))
          ELSE NaN

\* ------------------------------------------------------------ input files
Cell(s) == [na |-> FALSE, s |-> s]

DateText(month, day, year, at, hour, minute, second, ampm) ==
  Cell([month |-> month, day |-> day, year |-> year, at |-> at,
        hour |-> hour, minute |-> minute, second |-> second, ampm |-> ampm])

\* the empty cell of a text column, of the date column, of a numeric column
NoArea == [na |-> TRUE, s |-> ""]

NoDate == [DateText("", 0, 0, "", 0, 0, 0, "") EXCEPT !.na = TRUE]

NoNumber == [na |-> TRUE, s |-> <<>>]

RawRow(area, date, lifted, left) ==
  [area |-> area, date |-> date, lifted |-> lifted, left |-> left]

\* the rows an input file is made of
RawRows ==
  { \* well-formed rows
    RawRow(Cell("Bicep"), DateText("January", 6, 2025, "at", 9, 0, 0, "AM"),
           Cell(<<"2", "0">>), Cell(<<"4", "9", "9", ",", "9", "8", "0">>)),
    RawRow(Cell("Chest"), DateText("January", 13, 2025, "at", 12, 30, 0, "PM"),
           Cell(<<"4", "0">>), Cell(<<"1", "0">>)),
    \* a category outside WORKOUT_AREAS, a remaining weight above the goal
    RawRow(Cell("Cardio"), DateText("December", 29, 2024, "at", 12, 5, 0, "AM"),
           Cell(<<"1", ",", "0", "0", "0">>), Cell(<<"6", "0", "0", ",", "0", "0", "0">>)),
    \* an empty date cell, a malformed 'Weight Left' cell
    RawRow(Cell("Back"), NoDate, Cell(<<"5">>), Cell(<<"a", "b", "c">>)),
    \* a date string in another format
    RawRow(Cell("Bicep"), DateText("2025-01-06", 0, 0, "", 9, 0, 0, ""),
           Cell(<<"2", "0">>), Cell(<<"4", "9", "9", ",", "9", "6", "0">>)),
    \* the "Totals" row, a row without category, a completely empty row
    RawRow(Cell("Totals"), NoDate, Cell(<<"1", ",", "0", "6", "0">>), NoNumber),
    RawRow(NoArea, DateText("January", 6, 2025, "at", 9, 0, 0, "AM"), Cell(<<"2", "0">>), NoNumber),
    RawRow(NoArea, NoDate, NoNumber, NoNumber) }

\* a column name as written in the header: the name between blanks
Col(lpad, name, rpad) == [lpad |-> lpad, name |-> name, rpad |-> rpad]

Headers ==
  { <<Col(0, "Workout Area", 0), Col(0, "Date", 0), Col(0, "Total Lifted", 0), Col(0, "Weight Left", 0)>>,
    <<Col(0, "Workout Area", 1), Col(1, "Date", 0), Col(0, "Total Lifted", 0), Col(1, "Weight Left", 1)>>,
    <<Col(0, "Workout Area", 0), Col(0, "Date", 0), Col(0, "Total Lifted", 0)>> }

SeqsUpTo(S, n) == UNION {[1..k -> S] : k \in 0..n}

Files ==
  {[readable |-> FALSE, header |-> <<>>, rows |-> <<>>]}
  \cup {[readable |-> TRUE, header |-> h, rows |-> r] : h \in Headers, r \in SeqsUpTo(RawRows, MaxRows)}

\* ---------------------------------------------------------------- loader
NoWeek == [na |-> TRUE, w |-> 0]

Entry(area, date, lifted, left) ==
  [area |-> area, Date |-> date, lifted |-> lifted, left |-> left, Week |-> NoWeek]

\* df.columns.str.strip(): the names by which the columns are then found
StripColumns(header) == {header[i].name : i \in DOMAIN header}

\* df.dropna(how='all')
NotAllEmpty(r) == ~(r.area.na /\ r.date.na /\ r.lifted.na /\ r.left.na)

\* df[df['Workout Area'].notna()]
AreaNotNa(r) == ~r.area.na

\* the "Totals" row is kept
NotTotals_Keep(r) == TRUE

\* df[df['Workout Area'] != 'Totals']
NotTotals(r) == r.area.na \/ r.area.s # "Totals"

FilterRows(rows) == SelectSeq(SelectSeq(SelectSeq(rows, NotAllEmpty), AreaNotNa), NotTotals)

\* the four columns the loader reads
NeededColumns == {"Workout Area", "Date", "Total Lifted", "Weight Left"}

\* what makes load_data take its except branch: read_csv fails, a column is
\* not found (KeyError), or to_datetime meets a string that does not match the
\* format (errors='raise' is the default)
LoadRaises(file) ==
  \/ ~file.readable
  \/ ~(NeededColumns \subseteq StripColumns(file.header))
  \/ \E i \in DOMAIN FilterRows(file.rows) : ~ParseDate(FilterRows(file.rows)[i].date).ok

ConvertRow(r) ==
  Entry(r.area, ParseDate(r.date).ts, ToNumeric(r.lifted), ToNumeric(r.left))

Perms(n) == {p \in [1..n -> 1..n] : \A i, j \in 1..n : p[i] = p[j] => i = j}

\* df.sort_values('Date'): ascending, NaT last in their original order; the
\* default sort is not stable, so rows of equal Date come in any order
SortValues(rows) ==
  LET n == Len(rows)
      ok(p) == \A i, j \in 1..n : i < j =>
                 LET a == rows[p[i]].Date
                     b == rows[p[j]].Date
                 IN /\ a.nat => b.nat
                    /\ (~a.nat /\ ~b.nat) => TsLe(a, b)
                    /\ (a.nat /\ b.nat) => p[i] < p[j]
  IN {[i \in 1..n |-> rows[p[i]]] : p \in {q \in Perms(n) : ok(q)}}

\* load_data(): the tables it can return
load_data(file) ==
  IF LoadRaises(file) THEN {<<>>}
  ELSE LET kept == FilterRows(file.rows)
       IN SortValues([i \in DOMAIN kept |-> ConvertRow(kept[i])])

\* the columns of the returned frame: pd.DataFrame() has none
LoadedColumns(file) == IF LoadRaises(file) THEN {} ELSE StripColumns(file.header)

\* ------------------------------------------------------ progress overview
\* a Python number handed to min, max and st.progress: the quotient num/den
\* of a float division, or an int literal
Quot(a, d) == [nan |-> a.nan, num |-> a.v, den |-> d, int |-> FALSE]

IntLit(n) == [nan |-> FALSE, num |-> n, den |-> 1, int |-> TRUE]

\* a > b in Python: False whenever one side is NaN
PyGt(a, b) == ~a.nan /\ ~b.nan /\ a.num * b.den > b.num * a.den

\* max(a, b): b only if b > a
PyMax(a, b) == IF PyGt(b, a) THEN b ELSE a

\* min(a, b): b only if b < a
PyMin(a, b) == IF PyGt(a, b) THEN b ELSE a

\* min(max(total_lifted / GOAL_WEIGHT, 0), 1)
Clamp(total_lifted) == PyMin(PyMax(Quot(total_lifted, GOAL_WEIGHT), IntLit(0)), IntLit(1))

\* st.progress(value) raises StreamlitAPIException unless an int is in
\* [0, 100] or a float in [0.0, 1.0]
ProgressRaises(p) ==
  IF p.int THEN ~(0 <= p.num /\ p.num <= 100)
  ELSE p.nan \/ ~(0 <= p.num /\ p.num <= p.den)

\* st.session_state.data.empty
IsEmpty(d) == d = <<>>

Overview(d) ==
  IF IsEmpty(d)
  THEN [shown |-> FALSE, total_lifted |-> NaN, remaining_weight |-> NaN,
        progress |-> IntLit(0), raised |-> FALSE]
  ELSE LET total_lifted == FSub(Num(GOAL_WEIGHT), d[Len(d)].left)
           remaining_weight == d[Len(d)].left
           progress == Clamp(total_lifted)
       IN [shown |-> TRUE, total_lifted |-> total_lifted,
           remaining_weight |-> remaining_weight,
           progress |-> progress, raised |-> ProgressRaises(progress)]

\* -------------------------------------------------------------- analytics
\* ['Total Lifted'].sum(): NaN is skipped
RECURSIVE SumLifted(_)
SumLifted(rows) ==
  IF rows = <<>> THEN 0
  ELSE (IF Head(rows).lifted.nan THEN 0 ELSE Head(rows).lifted.v) + SumLifted(Tail(rows))

\* groupby('Workout Area')['Total Lifted'].sum(): rows without a category
\* are left out
ByArea(d) ==
  {<<a, SumLifted(SelectSeq(d, LAMBDA e : ~e.area.na /\ e.area.s = a))>> :
     a \in {d[i].area.s : i \in {j \in DOMAIN d : ~d[j].area.na}}}

WeekOf(ts) == IF ts.nat THEN NoWeek ELSE [na |-> FALSE, w |-> IsoWeek(ts)]

\* st.session_state.data['Week'] = st.session_state.data['Date'].dt.isocalendar().week
WithWeek(d) == [i \in DOMAIN d |-> [d[i] EXCEPT !.Week = WeekOf(d[i].Date)]]

\* groupby('Week')['Total Lifted'].sum(): rows without a week are left out
Weekly(d) ==
  {<<w, SumLifted(SelectSeq(d, LAMBDA e : ~e.Week.na /\ e.Week.w = w))>> :
     w \in {d[i].Week.w : i \in {j \in DOMAIN d : ~d[j].Week.na}}}

DateOf(ts) == <<ts.y, ts.m, ts.d>>

\* groupby(Date.dt.date).agg(sum of 'Total Lifted', count of 'Date'): rows
\* without a date are left out
DailyStats(d) ==
  {[date |-> day,
    lifted |-> SumLifted(SelectSeq(d, LAMBDA e : ~e.Date.nat /\ DateOf(e.Date) = day)),
    count |-> Len(SelectSeq(d, LAMBDA e : ~e.Date.nat /\ DateOf(e.Date) = day))] :
     day \in {DateOf(d[i].Date) : i \in {j \in DOMAIN d : ~d[j].Date.nat}}}

RECURSIVE SetSum(_)
SetSum(S) == IF S = {} THEN 0 ELSE LET x == CHOOSE x \in S : TRUE IN x.lifted + SetSum(S \ {x})

NoAnalytics ==
  [shown |-> FALSE, by_area |-> {}, weekly |-> {}, mean_num |-> 0, mean_den |-> 0,
   max |-> NaN, sessions |-> 0]

\* lines 136-191: the numbers behind the charts and the three metrics; the
\* mean is the quotient mean_num / mean_den (NaN when there is no day)
Analytics(d) ==
  LET daily == DailyStats(d)
  IN [shown |-> TRUE,
      by_area |-> ByArea(d),
      weekly |-> Weekly(d),
      mean_num |-> SetSum(daily),
      mean_den |-> Cardinality(daily),
      max |-> IF daily = {} THEN NaN
              ELSE Num(CHOOSE m \in {x.lifted : x \in daily} : \A x \in daily : x.lifted <= m),
      sessions |-> Cardinality(daily)]

\* ------------------------------------------------------- one script run
\* Lines 61-81 and 133-193 on table d with columns cols: the table and the
\* columns the run leaves in the session, and what it shows.  An exception
\* out of st.progress ends the run before the form and the analytics.
RunScript(d, cols) ==
  LET o == Overview(d)
  IN IF o.raised
     THEN [data |-> d, columns |-> cols,
           view |-> [halted |-> TRUE, overview |-> o, analytics |-> NoAnalytics]]
     ELSE IF IsEmpty(d)
     THEN [data |-> d, columns |-> cols,
           view |-> [halted |-> FALSE, overview |-> o, analytics |-> NoAnalytics]]
     ELSE [data |-> WithWeek(d), columns |-> cols \cup {"Week"},
           view |-> [halted |-> FALSE, overview |-> o, analytics |-> Analytics(WithWeek(d))]]

\* ------------------------------------------------------------ form inputs
\* st.selectbox(options=WORKOUT_AREAS), st.date_input, st.time_input: the
\* choices a submission is made with
FormDate(y, m, d) == [y |-> y, m |-> m, d |-> d]

FormTime(hh, mm, ss) == [hh |-> hh, mm |-> mm, ss |-> ss]

FormInputs ==
  { [workout_area |-> WORKOUT_AREAS[2], date |-> FormDate(2024, 12, 30), time |-> FormTime(8, 0, 0)],
    [workout_area |-> WORKOUT_AREAS[7], date |-> FormDate(2025, 1, 14), time |-> FormTime(18, 30, 0)] }

\* st.number_input(min_value=0, value=0, step=5): the increments entered
Increments == {0, 20}

\* where the try block of the submit handler can raise
RaisePoints == {"combine", "read", "build", "concat"}

\* ------------------------------------------------------- submit handler
\* the previous remaining weight is not read: always the goal
WeightLeft_FromGoal(d, total) == FSub(Num(GOAL_WEIGHT), Num(total))

\* an empty table counts from zero, not from the goal
WeightLeft_ZeroStart(d, total) ==
  FSub(IF ~IsEmpty(d) THEN d[Len(d)].left ELSE Num(0), Num(total))

\* lines 112-113
WeightLeft(d, total) ==
  FSub(IF ~IsEmpty(d) THEN d[Len(d)].left ELSE Num(GOAL_WEIGHT), Num(total))

\* lines 109-120
NewEntry(workout_area, date, time, d, total) ==
  Entry(Cell(workout_area), Combine(date, time), Num(total), WeightLeft(d, total))

\* the new entry is put first
Concat_Prepend(d, new_entry) == <<new_entry>> \o d

\* pd.concat([data, new_entry], ignore_index=True)
Concat(d, new_entry) == Append(d, new_entry)

\* the increment replaces the accumulator
AddWeight_Overwrite(total, weight_to_add) == weight_to_add

\* line 98: session_total += weight_to_add
AddWeight(total, weight_to_add) == total + weight_to_add

\* the table is extended before the step that raises
TrySubmit_AssignFirst(d, total, in, raise_at) ==
  IF raise_at \in RaisePoints
  THEN [data |-> IF raise_at = "concat"
                 THEN Concat(d, NewEntry(in.workout_area, in.date, in.time, d, total))
                 ELSE d,
        session_total |-> total, error |-> TRUE]
  ELSE [data |-> Concat(d, NewEntry(in.workout_area, in.date, in.time, d, total)),
        session_total |-> 0, error |-> FALSE]

\* Lines 107-131: the try block.  raise_at is "none", or the step that
\* raises; the session is assigned only at lines 123 and 126.
TrySubmit(d, total, in, raise_at) ==
  IF raise_at \in RaisePoints
  THEN [data |-> d, session_total |-> total, error |-> TRUE]
  ELSE [data |-> Concat(d, NewEntry(in.workout_area, in.date, in.time, d, total)),
        session_total |-> 0, error |-> FALSE]

\* ----------------------------------------------------------------- state
VARIABLES
  started,        \* 'data' and 'session_total' are in st.session_state
  data,           \* st.session_state.data: the entry table
  columns,        \* its columns
  session_total,  \* st.session_state.session_total
  view,           \* what the last script run showed
  last,           \* the last interaction, its inputs and the state before it
  loaded,         \* the table the first run put in the session
  added           \* the increments added since the last committed entry, summed

vars == <<started, data, columns, session_total, view, last, loaded, added>>

NoFile == [readable |-> FALSE, header |-> <<>>, rows |-> <<>>]

NoInput == [workout_area |-> "", date |-> FormDate(0, 0, 0), time |-> FormTime(0, 0, 0)]

Interaction(op, file, in, w, error) ==
  [op |-> op, file |-> file, in |-> in, weight_to_add |-> w, error |-> error,
   prev_data |-> data, prev_columns |-> columns, prev_total |-> session_total]

Init ==
  /\ started = FALSE
  /\ data = <<>>
  /\ columns = {}
  /\ session_total = 0
  /\ view = [halted |-> TRUE, overview |-> Overview(<<>>), analytics |-> NoAnalytics]
  /\ last = [op |-> "none", file |-> NoFile, in |-> NoInput, weight_to_add |-> 0,
             error |-> FALSE, prev_data |-> <<>>, prev_columns |-> {}, prev_total |-> 0]
  /\ loaded = <<>>
  /\ added = 0

\* The first run of a session: lines 49-52 load the file and set the
\* accumulator, then the page is rendered.
FirstRun ==
  /\ ~started
  /\ \E file \in Files : \E table \in load_data(file) :
       \E run \in {RunScript(table, LoadedColumns(file))} :
          /\ data' = run.data
          /\ columns' = run.columns
          /\ view' = run.view
          /\ loaded' = run.data
          /\ last' = Interaction("load", file, NoInput, 0, LoadRaises(file))
  /\ started' = TRUE
  /\ session_total' = 0
  /\ added' = 0

\* A run no button started (a widget changed, the page was reloaded in the
\* same session).
Rerun ==
  /\ started
  /\ \E run \in {RunScript(data, columns)} :
        /\ data' = run.data
        /\ columns' = run.columns
        /\ view' = run.view
  /\ last' = Interaction("rerun", NoFile, NoInput, 0, FALSE)
  /\ UNCHANGED <<started, session_total, loaded, added>>

\* "Add to Total": line 98, then the rest of the run.
AddToTotal ==
  /\ started
  /\ ~view.halted
  /\ \E weight_to_add \in Increments :
       /\ AddWeight(session_total, weight_to_add) <= MaxTotal
       /\ session_total' = AddWeight(session_total, weight_to_add)
       /\ added' = added + weight_to_add
       /\ last' = Interaction("add_to_total", NoFile, NoInput, weight_to_add, FALSE)
  /\ \E run \in {RunScript(data, columns)} :
        /\ data' = run.data
        /\ columns' = run.columns
        /\ view' = run.view
  /\ UNCHANGED <<started, loaded>>

\* "Add Workout", the try block runs to its end: lines 109-129, and the run
\* st.rerun() starts.
AddWorkout ==
  /\ started
  /\ ~view.halted
  /\ Len(data) < MaxEntries
  /\ \E in \in FormInputs :
       \E done \in {TrySubmit(data, session_total, in, "none")} :
       \E run \in {RunScript(done.data, columns \cup NeededColumns)} :
          /\ data' = run.data
          /\ columns' = run.columns
          /\ view' = run.view
          /\ session_total' = done.session_total
          /\ last' = Interaction("add_workout", NoFile, in, 0, done.error)
  /\ added' = 0
  /\ UNCHANGED <<started, loaded>>

\* "Add Workout", a step of the try block raises: line 131 reports it and
\* the run goes on to the analytics.
AddWorkoutRaises ==
  /\ started
  /\ ~view.halted
  /\ \E done \in {TrySubmit(data, session_total, in, raise_at) :
                       in \in FormInputs, raise_at \in RaisePoints} :
       \E run \in {RunScript(done.data, columns)} :
          /\ data' = run.data
          /\ columns' = run.columns
          /\ view' = run.view
          /\ session_total' = done.session_total
          /\ last' = Interaction("add_workout", NoFile, NoInput, 0, done.error)
  /\ UNCHANGED <<started, loaded, added>>

Next == FirstRun \/ Rerun \/ AddToTotal \/ AddWorkout \/ AddWorkoutRaises

Spec == Init /\ [][Next]_vars

\* ================================================================ claims
\* the last interaction was an "Add Workout" that ran to its end
Submitted == last.op = "add_workout" /\ ~last.error

\* non-decreasing by timestamp (entries without one are not compared)
SortedByDate(d) ==
  \A i, j \in DOMAIN d :
    (i < j /\ ~d[i].Date.nat /\ ~d[j].Date.nat) => TsLe(d[i].Date, d[j].Date)

\* an earlier-or-equal timestamp has no smaller remaining weight
Monotone(d) ==
  \A i, j \in DOMAIN d :
    (~d[i].Date.nat /\ ~d[j].Date.nat /\ TsLe(d[i].Date, d[j].Date)) =>
      (~d[i].left.nan /\ ~d[j].left.nan /\ d[i].left.v >= d[j].left.v)

\* C1: a successful "Add Workout" leaves every old entry in place and appends
\* exactly one entry at the end, with the chosen category, the chosen date
\* combined with the chosen time, and weightLifted = the accumulator as it
\* was at the submission.
C1_AppendOne ==
  Submitted =>
    LET n == Len(last.prev_data)
        e == data[Len(data)]
    IN /\ Len(data) = n + 1
       /\ \A i \in 1..n : data[i] = last.prev_data[i]
       /\ e.area = [na |-> FALSE, s |-> last.in.workout_area]
       /\ e.Date = [nat |-> FALSE,
                    y |-> last.in.date.y, m |-> last.in.date.m, d |-> last.in.date.d,
                    hh |-> last.in.time.hh, mm |-> last.in.time.mm, ss |-> last.in.time.ss]
       /\ e.lifted = [nan |-> FALSE, v |-> last.prev_total]

C1_Witness == Submitted /\ Len(last.prev_data) >= 2 /\ last.prev_total > 0

\* what the progress overview reports as remaining weight for table d, the
\* goal standing in when d is empty
ReportedRemaining(d) == IF d = <<>> THEN Num(GOAL_WEIGHT) ELSE Overview(d).remaining_weight

\* C2: if the progress overview reports remaining weight r before a
\* successful submission of accumulated weight w, the overview after it
\* reports exactly r - w, and total lifted exactly goal - (r - w); also after
\* submissions with back-dated timestamps.
C2_RoundTrip ==
  Submitted =>
    LET r == ReportedRemaining(last.prev_data)
        w == last.prev_total
    IN /\ ~r.nan
       /\ view.overview.shown
       /\ view.overview.remaining_weight = [nan |-> FALSE, v |-> r.v - w]
       /\ view.overview.total_lifted = [nan |-> FALSE, v |-> GOAL_WEIGHT - (r.v - w)]

C2_Witness ==
  /\ Submitted
  /\ last.prev_total > 0
  /\ Len(last.prev_data) > Len(loaded)
  /\ ~SortedByDate(last.prev_data)

\* C3: in every state of a session the table is sorted ascending by
\* timestamp.
C3_SortedAlways == started => SortedByDate(data)

\* C4: whenever the table is not empty, the value handed to the progress bar
\* lies in [0, 1].
C4_ProgressInUnitInterval ==
  (started /\ ~IsEmpty(data)) =>
    LET p == view.overview.progress
    IN ~p.nan /\ 0 <= p.num /\ p.num <= p.den

\* a row with everything in order
WellFormedRow(r) ==
  /\ ~r.area.na /\ r.area.s \in AreaSet
  /\ ~r.date.na /\ ParseDate(r.date).ok
  /\ ~ToNumeric(r.lifted).nan /\ ~ToNumeric(r.left).nan

\* a row in order but for its date string, which does not match the format
MalformedDateRow(r) ==
  /\ ~r.area.na /\ r.area.s \in AreaSet
  /\ ~r.date.na /\ ~ParseDate(r.date).ok

\* a readable file with all columns, one row with a malformed date, the
\* other rows (at least one) well-formed
OneMalformedDate(file) ==
  /\ file.readable
  /\ NeededColumns \subseteq StripColumns(file.header)
  /\ Cardinality({i \in DOMAIN file.rows : MalformedDateRow(file.rows[i])}) = 1
  /\ Cardinality({i \in DOMAIN file.rows : WellFormedRow(file.rows[i])}) = Len(file.rows) - 1
  /\ Len(file.rows) >= 2

\* C5: a file with one malformed date string loads without failure: that
\* row gets a missing timestamp, every other row is loaded with its parsed
\* timestamp, and the table is not empty.
C5_MalformedDateCoerced ==
  (last.op = "load" /\ OneMalformedDate(last.file)) =>
    /\ ~last.error
    /\ data # <<>>
    /\ Len(data) = Len(last.file.rows)
    /\ Cardinality({i \in DOMAIN data : data[i].Date.nat}) = 1
    /\ \A k \in DOMAIN last.file.rows :
         WellFormedRow(last.file.rows[k]) =>
           \E i \in DOMAIN data : ~data[i].Date.nat /\ data[i].Date = ParseDate(last.file.rows[k].date).ts

\* C6: an "Add Workout" that raises at any step is caught and reported, the
\* run goes on, and the table is the table from before the submission.
C6_FailedSubmitKeepsTable ==
  (last.op = "add_workout" /\ last.error) =>
    /\ data = last.prev_data
    /\ session_total = last.prev_total
    /\ ~view.halted

C6_Witness ==
  /\ last.op = "add_workout" /\ last.error
  /\ Len(data) > Len(loaded)
  /\ session_total > 0

\* C7: a load that fails on the file gives an empty table and a session
\* that goes on; the next successful "Add Workout" of accumulated weight w
\* then gives a table of one entry with weightLifted = w and
\* weightRemaining = 500000 - w, from which progress and analytics are
\* computed.
C7_UsableAfterLoadFailure ==
  /\ (last.op = "load" /\ ~last.file.readable) =>
       (started /\ data = <<>> /\ columns = {} /\ last.error /\ ~view.halted)
  /\ (Submitted /\ last.prev_columns = {}) =>
       LET w == last.prev_total
       IN /\ Len(data) = 1
          /\ data[1].lifted = [nan |-> FALSE, v |-> w]
          /\ data[1].left = [nan |-> FALSE, v |-> 500000 - w]
          /\ view.overview.shown
          /\ view.overview.remaining_weight = [nan |-> FALSE, v |-> 500000 - w]
          /\ view.overview.total_lifted = [nan |-> FALSE, v |-> w]
          /\ view.analytics.shown
          /\ view.analytics.by_area = {<<last.in.workout_area, w>>}
          /\ view.analytics.weekly = {<<data[1].Week.w, w>>}
          /\ view.analytics.mean_num = w /\ view.analytics.mean_den = 1
          /\ view.analytics.max = [nan |-> FALSE, v |-> w]
          /\ view.analytics.sessions = 1

C7_Witness == Submitted /\ last.prev_columns = {} /\ last.prev_total > 0

\* C8: if the loaded table has it, every later table has it: of two entries
\* the one with the earlier or equal timestamp has the greater or equal
\* remaining weight.
C8_MonotoneOverTime == (started /\ Monotone(loaded)) => Monotone(data)

\* C9: every entry of the table has a category of WORKOUT_AREAS.
C9_CategoryInFixedSet ==
  \A i \in DOMAIN data : ~data[i].area.na /\ data[i].area.s \in AreaSet

\* C9, amended: no entry is without category or has the category "Totals",
\* and every entry a submission appended has a category of WORKOUT_AREAS; a
\* loaded entry keeps the category of its row, whatever it is.
C9_NoTotalsAndSubmittedInFixedSet ==
  \A i \in DOMAIN data :
    /\ ~data[i].area.na
    /\ data[i].area.s # "Totals"
    /\ i > Len(loaded) => data[i].area.s \in AreaSet

C9_Witness ==
  /\ last.op = "load" /\ ~last.error
  /\ \E k \in DOMAIN last.file.rows :
       ~last.file.rows[k].area.na /\ last.file.rows[k].area.s = "Totals"
  /\ \E i \in DOMAIN data : data[i].area.s \notin AreaSet

\* C10: the accumulator is never negative and is the sum of the increments
\* added since the last successful "Add Workout" (since the start if there
\* was none): 0 at the start, raised by the increment by "Add to Total",
\* which leaves the table alone, kept by a rerun, 0 after a successful
\* "Add Workout".
C10_AccumulatorIsSumSinceCommit ==
  /\ session_total >= 0
  /\ session_total = added
  /\ last.op \in {"none", "load"} => session_total = 0
  /\ last.op = "add_to_total" =>
       (session_total = last.prev_total + last.weight_to_add /\ data = last.prev_data)
  /\ last.op = "rerun" => session_total = last.prev_total
  /\ Submitted => session_total = 0

C10_Witness ==
  /\ last.op = "add_to_total"
  /\ last.prev_total > 0
  /\ last.weight_to_add > 0
  /\ Len(data) > Len(loaded)

====
